---- MODULE Spec2Model ----
(***************************************************************************)
(* Model of three sources of the repository.                               *)
(*                                                                         *)
(* cmd/connectomestats.cpp: the run() function of the connectome           *)
(* group-wise statistics command, as a state machine whose program counter *)
(* walks the statements of run() in source order.  The inputs that run()   *)
(* reads (files named by the arguments, command-line options) are drawn    *)
(* from small sets at the statement that reads them.  The library routines *)
(* run() calls (GLM, enhancer, shuffler, permutation loop, FWE p-value     *)
(* calculation) are not part of the modelled sources; they are modelled    *)
(* from the specification document, the permutation loop with its worker   *)
(* threads and the shuffler as state machines of their own.                *)
(*                                                                         *)
(* cmd/shbasis.cpp: run() and check_and_update().                          *)
(*                                                                         *)
(* dwi/tractography/MACT/scenemodeller.cpp: SceneModeller::addTissues().   *)
(*                                                                         *)
(* Every state machine has its own variables and its own specification;    *)
(* its actions leave the variables of the others unchanged.                *)
(***************************************************************************)
EXTENDS Integers, Sequences, FiniteSets, TLC

(***************************************************************************)
(* Bounds of the model.                                                    *)
(***************************************************************************)
MaxEdges == 2          \* longest per-subject element vector
MaxHypotheses == 2     \* largest hypothesis set
MaxPerms == 2          \* largest requested number of permutations

(***************************************************************************)
(* Values.                                                                 *)
(***************************************************************************)
NaN == "nan"                       \* a non-finite measurement
Finite == "0.0"                    \* a finite measurement
DataValues == {Finite, NaN}        \* a measurement: finite or not
StatValues == {0, 1}               \* values a statistic may take
NoMatrix == <<>>                   \* a matrix_type that was never resized

\* const char* algorithms[] = { "nbs", "nbse", "none", nullptr };
algorithms == <<"nbs", "nbse", "none">>

\* element vectors of 1..MaxEdges measurements
SubjectVectors == UNION { [1..n -> DataValues] : n \in 1..MaxEdges }

\* maximum of a non-empty finite set of integers
SetMax(S) == CHOOSE x \in S : \A y \in S : y <= x

\* Eigen: matrix.allFinite()
AllFinite(m) == \A r \in 1..Len(m) : \A c \in 1..Len(m[r]) : m[r][c] # NaN

\* the sequences are concatenated in order
RECURSIVE Flatten(_)
Flatten(ss) == IF ss = <<>> THEN <<>> ELSE Head(ss) \o Flatten(Tail(ss))

VARIABLES
  pc,              \* position in run()
  error,           \* message of the Exception that ended run(), or "none"
  warnings,        \* WARN() messages issued so far
  importer,        \* CohortDataImport importer: one element vector per subject
  algorithm,       \* argument[1] as read by the switch, or "unread"
  threshold,       \* get_options ("threshold"): "unread", "absent" or "given"
  enhancer,        \* the enhancement algorithm constructed, or "null"
  do_nonstationarity_adjustment,
  design,          \* [rows, cols] of the design matrix, or NoMatrix
  extra_columns,   \* vector<CohortDataImport> extra_columns
  nans_in_columns,
  hypotheses,      \* vector<Hypothesis> hypotheses
  output_prefix,
  data,            \* matrix_type data (subjects x edges)
  nans_in_data,
  glm_test,        \* "null", "TestFixed" or "TestVariable"
  empirical_statistic,
  default_output,
  enhanced_output,
  fwe_strong,
  num_perms,       \* number of shuffles requested
  perm_index,      \* number of shuffles processed by run_permutations
  perm_enhanced,   \* enhanced statistic of the shuffle processed last
  null_distribution,
  null_contributions,
  uncorrected_counts,
  uncorrected_pvalues,
  pvalue_output,
  files,           \* the files written so far, in order: [name, kind, content]
  notest,          \* get_options ("notest"): "unread", "absent" or "given"
  calls            \* the library calls made so far, in order, with the
                   \* empirical and observed statistics handed to each

configVars == << importer, algorithm, threshold, enhancer, do_nonstationarity_adjustment, design,
                 extra_columns, nans_in_columns, hypotheses, output_prefix,
                 data, nans_in_data >>
statVars == << glm_test, empirical_statistic, default_output, enhanced_output >>
permVars == << fwe_strong, num_perms, perm_index, perm_enhanced,
               null_distribution, null_contributions, uncorrected_counts,
               uncorrected_pvalues, pvalue_output >>
logVars == << notest, calls >>
runVars == << pc, error, warnings, configVars, statVars, permVars, files, logVars >>

(***************************************************************************)
(* The permutation loop with worker threads: the state of one call of      *)
(* run_permutations().                                                     *)
(***************************************************************************)
VARIABLES
  loop_state,      \* "idle", "running" or "finished"
  num_shuffles,    \* the number of shuffles requested
  next_shuffle,    \* index of the shuffle the shuffler hands out next
  loop_observed,   \* the observed enhanced statistic the loop was given
  shuffles,        \* the statistics of the shuffles handed out, in order
  workers,         \* per worker thread: state, shuffle held, local counts
  null_dist,       \* the shared null distribution, one row per shuffle
  row_writes,      \* per row of null_dist: how many times it was written
  exceedances,     \* the merged exceedance counts
  completion       \* the indices of the shuffles processed, in order

loopVars == << loop_state, num_shuffles, next_shuffle, loop_observed, shuffles, workers,
               null_dist, row_writes, exceedances, completion >>

(***************************************************************************)
(* The shuffler: the state of one request for shuffles.                    *)
(***************************************************************************)
VARIABLES
  shuffler_state,  \* "idle", "generating", "finished" or "failed"
  nshuffles,       \* the number of arrangements requested
  blocks,          \* the exchangeability block of every subject
  permutations,    \* the arrangements emitted so far, in order
  retries          \* duplicates drawn since the last arrangement was emitted

shufflerVars == << shuffler_state, nshuffles, blocks, permutations, retries >>

(***************************************************************************)
(* cmd/shbasis.cpp: the state of run() and of the images it is given.      *)
(***************************************************************************)
VARIABLES
  sh_pc,           \* position in run(): "options", "open", "check", "done", "failed"
  sh_error,        \* message of the Exception that ended run(), or "none"
  force_old,
  force_new,
  argument,        \* the images named by the arguments, as they are on disk
  given,           \* the same images as they were when run() began
  next_argument,   \* the iterator i of the loop over argument
  headers,         \* number of Image::Header objects constructed
  buffers,         \* the read_write flag of every Image::Buffer constructed
  written          \* the voxels assigned: << argument, volume, voxel >>

shbasisVars == << sh_pc, sh_error, force_old, force_new, argument, given,
                  next_argument, headers, buffers, written >>

(***************************************************************************)
(* MACT/scenemodeller.cpp: the tissues of a SceneModeller.                 *)
(***************************************************************************)
VARIABLES
  _tissues,        \* std::map of tissue type to tissue: a set of << type, tissue >>
  _tissueLut,      \* the tissues passed to _tissueLut.update(), in order
  add_calls,       \* number of calls of addTissues() so far
  last_call        \* the last call: tissues in iteration order, the map
                   \* before it, and the Exception it threw or "none"

sceneVars == << _tissues, _tissueLut, add_calls, last_call >>

\* the variables that run() of connectomestats never touches
outsideRun == << loopVars, shufflerVars, shbasisVars, sceneVars >>

InitScene ==
  /\ _tissues = {}
  /\ _tissueLut = <<>>
  /\ add_calls = 0
  /\ last_call = [tissues |-> <<>>, before |-> {}, error |-> "none"]

InitShbasis ==
  /\ sh_pc = "options"
  /\ sh_error = "none"
  /\ force_old = FALSE
  /\ force_new = FALSE
  /\ argument = <<>>
  /\ given = <<>>
  /\ next_argument = 1
  /\ headers = 0
  /\ buffers = <<>>
  /\ written = {}

InitShuffler ==
  /\ shuffler_state = "idle"
  /\ nshuffles = 0
  /\ blocks = <<>>
  /\ permutations = <<>>
  /\ retries = 0

InitLoop ==
  /\ loop_state = "idle"
  /\ num_shuffles = 0
  /\ next_shuffle = 0
  /\ loop_observed = NoMatrix
  /\ shuffles = <<>>
  /\ workers = <<>>
  /\ null_dist = <<>>
  /\ row_writes = <<>>
  /\ exceedances = NoMatrix
  /\ completion = <<>>

vars == << runVars, outsideRun >>

InitRun ==
  /\ pc = "import"
  /\ error = "none"
  /\ warnings = {}
  /\ importer = <<>>
  /\ algorithm = "unread"
  /\ threshold = "unread"
  /\ enhancer = "null"
  /\ do_nonstationarity_adjustment = FALSE
  /\ design = NoMatrix
  /\ extra_columns = <<>>
  /\ nans_in_columns = FALSE
  /\ hypotheses = <<>>
  /\ output_prefix = ""
  /\ data = NoMatrix
  /\ nans_in_data = FALSE
  /\ glm_test = "null"
  /\ empirical_statistic = NoMatrix
  /\ default_output = NoMatrix
  /\ enhanced_output = NoMatrix
  /\ fwe_strong = FALSE
  /\ num_perms = 0
  /\ perm_index = 0
  /\ perm_enhanced = NoMatrix
  /\ null_distribution = NoMatrix
  /\ null_contributions = NoMatrix
  /\ uncorrected_counts = NoMatrix
  /\ uncorrected_pvalues = NoMatrix
  /\ pvalue_output = NoMatrix
  /\ files = <<>>
  /\ notest = "unread"
  /\ calls = <<>>

Init == InitRun /\ InitLoop /\ InitShuffler /\ InitShbasis /\ InitScene

\* throw Exception (msg): run() ends, nothing else changes
Throw(msg) == pc' = "failed" /\ error' = msg

(***************************************************************************)
(* Lines 163-172: read the cohort and compare every subject's vector       *)
(* length with the first subject's.                                        *)
(***************************************************************************)
SizeMismatch(imp) == \E i \in 2..Len(imp) : Len(imp[i]) # Len(imp[1])

ImportCohort(cohorts) ==
  /\ pc = "import"
  /\ \E cohort \in cohorts :
       /\ importer' = cohort
       /\ IF SizeMismatch(cohort)
            THEN Throw("Size of connectome does not match that of first subject")
            ELSE pc' = "enhancer" /\ error' = error
  /\ UNCHANGED << warnings, algorithm, threshold, enhancer, do_nonstationarity_adjustment, design,
                  extra_columns, nans_in_columns, hypotheses, output_prefix,
                  data, nans_in_data, files >>
  /\ UNCHANGED statVars
  /\ UNCHANGED permVars
  /\ UNCHANGED logVars
  /\ UNCHANGED outsideRun

(***************************************************************************)
(* Lines 179-208: construct the enhancement algorithm selected by          *)
(* argument[1]; -threshold is required by "nbs" only.  The switch's        *)
(* default branch is unreachable: the argument is a type_choice.           *)
(***************************************************************************)
\* the test of line 184 applied to every algorithm
ThresholdMissing_any(alg, threshold_given) == ~threshold_given

ThresholdMissing(alg, threshold_given) ==
  alg = "nbs" /\ ~threshold_given

InitialiseEnhancer ==
  /\ pc = "enhancer"
  /\ \E a \in 1..Len(algorithms), threshold_given \in BOOLEAN, nonstationarity \in BOOLEAN :
       /\ algorithm' = algorithms[a]
       /\ threshold' = IF threshold_given THEN "given" ELSE "absent"
       /\ IF ThresholdMissing(algorithms[a], threshold_given)
            THEN /\ Throw("For NBS algorithm, -threshold option must be provided")
                 /\ UNCHANGED << enhancer, warnings, do_nonstationarity_adjustment >>
            ELSE /\ enhancer' = algorithms[a]
                 /\ warnings' = IF algorithms[a] # "nbs" /\ threshold_given
                                  THEN warnings \cup {"-threshold option ignored"}
                                  ELSE warnings
                 /\ do_nonstationarity_adjustment' = nonstationarity
                 /\ pc' = "design"
                 /\ error' = error
  /\ UNCHANGED << importer, design, extra_columns, nans_in_columns, hypotheses,
                  output_prefix, data, nans_in_data, files >>
  /\ UNCHANGED statVars
  /\ UNCHANGED permVars
  /\ UNCHANGED logVars
  /\ UNCHANGED outsideRun

(***************************************************************************)
(* Lines 210-213: load the design matrix; its row count must equal the     *)
(* number of subjects.                                                     *)
(***************************************************************************)
\* the comparison of line 212 written as `<`
DesignRowsMismatch_less(d, imp) == d.rows < Len(imp)

DesignRowsMismatch(d, imp) == d.rows # Len(imp)

LoadDesign(designs) ==
  /\ pc = "design"
  /\ \E d \in designs :
       /\ design' = d
       /\ IF DesignRowsMismatch(d, importer)
            THEN Throw("number of subjects does not match number of rows in design matrix")
            ELSE pc' = "columns" /\ error' = error
  /\ UNCHANGED << warnings, importer, algorithm, threshold, enhancer,
                  do_nonstationarity_adjustment,
                  extra_columns, nans_in_columns, hypotheses, output_prefix,
                  data, nans_in_data, files >>
  /\ UNCHANGED statVars
  /\ UNCHANGED permVars
  /\ UNCHANGED logVars
  /\ UNCHANGED outsideRun

(***************************************************************************)
(* Lines 215-233: one CohortDataImport per use of -column.  The loop       *)
(* records whether any of them holds a non-finite value; it compares       *)
(* nothing with the number of subjects.  check_design() receives the       *)
(* design matrix and the NUMBER of extra columns only.                     *)
(***************************************************************************)
\* CohortDataImport::allFinite()
CohortAllFinite(cohort) == AllFinite(cohort)

NansInColumns(cols) == \E i \in 1..Len(cols) : ~CohortAllFinite(cols[i])

\* const ssize_t num_factors = design.cols() + extra_columns.size();
NumFactors(d, cols) == d.cols + Len(cols)

LoadColumns(columnInputs) ==
  /\ pc = "columns"
  /\ \E cols \in columnInputs :
       \* the element vectors of a -column input have the cohort's length
       /\ \A i \in 1..Len(cols) : \A s \in 1..Len(cols[i]) :
             Len(cols[i][s]) = Len(importer[1])
       /\ extra_columns' = cols
       /\ nans_in_columns' = NansInColumns(cols)
       /\ pc' = "hypotheses"
  /\ UNCHANGED << error, warnings, importer, algorithm, threshold, enhancer,
                  do_nonstationarity_adjustment,
                  design, hypotheses, output_prefix, data, nans_in_data, files >>
  /\ UNCHANGED statVars
  /\ UNCHANGED permVars
  /\ UNCHANGED logVars
  /\ UNCHANGED outsideRun

(***************************************************************************)
(* Lines 235-244: load the hypotheses and compare the column count of the  *)
(* first one with the number of factors; then read the output prefix.      *)
(*                                                                         *)
(* load_hypotheses() builds the set from ONE contrast matrix: a t-test per *)
(* row, followed by the F-tests.  Every hypothesis therefore has the       *)
(* contrast matrix's column count, and the set is never empty.             *)
(***************************************************************************)
HypothesisName(k, is_F) == (IF is_F THEN "F" ELSE "t") \o ToString(k)

\* the hypothesis sets load_hypotheses() can return for a contrast matrix of
\* `cols` columns: num_t t-tests followed by num_F F-tests, at least one in all
load_hypotheses(cols) ==
  { [k \in 1..(num_t + num_F) |->
        [cols |-> cols, is_F |-> k > num_t, name |-> HypothesisName(k, k > num_t)]] :
      num_t \in 0..MaxHypotheses, num_F \in 0..MaxHypotheses } \ { <<>> }

\* the comparison of line 238 written as `>`
HypothesisColsMismatch_greater(hyps, num_factors) == hyps[1].cols > num_factors

HypothesisColsMismatch(hyps, num_factors) == hyps[1].cols # num_factors

LoadHypotheses(contrastCols, prefixes) ==
  /\ pc = "hypotheses"
  /\ \E c \in contrastCols :
       \E hyps \in { h \in load_hypotheses(c) : Len(h) <= MaxHypotheses } :
         /\ hypotheses' = hyps
         /\ IF HypothesisColsMismatch(hyps, NumFactors(design, extra_columns))
              THEN /\ Throw("the number of columns in the contrast matrix does not equal the number of columns in the design matrix")
                   /\ UNCHANGED output_prefix
              ELSE /\ \E prefix \in prefixes : output_prefix' = prefix
                   /\ pc' = "agglomerate"
                   /\ error' = error
  /\ UNCHANGED << warnings, importer, algorithm, threshold, enhancer,
                  do_nonstationarity_adjustment,
                  design, extra_columns, nans_in_columns, data, nans_in_data, files >>
  /\ UNCHANGED statVars
  /\ UNCHANGED permVars
  /\ UNCHANGED logVars
  /\ UNCHANGED outsideRun

(***************************************************************************)
(* Lines 250-258: copy every subject's vector into a row of the data       *)
(* matrix.  Line 258 assigns data.allFinite() to nans_in_data.             *)
(***************************************************************************)
NansInData(d) == AllFinite(d)

AgglomerateData ==
  /\ pc = "agglomerate"
  /\ data' = [subject \in 1..Len(importer) |-> importer[subject]]
  /\ nans_in_data' = NansInData(data')
  /\ pc' = "all_stats"
  /\ UNCHANGED << error, warnings, importer, algorithm, threshold, enhancer,
                  do_nonstationarity_adjustment,
                  design, extra_columns, nans_in_columns, hypotheses,
                  output_prefix, files >>
  /\ UNCHANGED statVars
  /\ UNCHANGED permVars
  /\ UNCHANGED logVars
  /\ UNCHANGED outsideRun

(***************************************************************************)
(* Output files.  A file name is the string that run() concatenates.       *)
(***************************************************************************)
\* the test of line 261 written as `>= 1`
postfix_always(hyps, i) == IF Len(hyps) >= 1 THEN "_" \o hyps[i].name ELSE ""

\* auto postfix = [&] (const size_t i) { ... }   (i counts from 1 here)
postfix(hyps, i) == IF Len(hyps) > 1 THEN "_" \o hyps[i].name ELSE ""

File(name, kind, content) == [name |-> name, kind |-> kind, content |-> content]

\* column h of a matrix held as a sequence of rows
Col(m, h) == [r \in 1..Len(m) |-> m[r][h]]

\* Eigen: v.array().square()
Square(v) == [r \in 1..Len(v) |-> v[r] * v[r]]

\* the matrices of `rows` rows and `cols` columns over the set `values`
Matrices(rows, cols, values) == [1..rows -> [1..cols -> values]]

NumEdges == Len(importer[1])
NumHypotheses == Len(hypotheses)

(***************************************************************************)
(* Lines 263-287: all_stats() on the unpermuted data, and the files that   *)
(* hold its results.  The numbers all_stats() computes are not modelled:   *)
(* the content of these files is left empty.                               *)
(***************************************************************************)
\* a library call and the empirical / observed statistic handed to it
Call(fn, empirical, observed) ==
  [fn |-> fn, empirical |-> empirical, observed |-> observed]

BetaFiles(num_factors) ==
  [i \in 1..num_factors |-> File("beta" \o ToString(i - 1) \o ".csv", "beta", <<>>)]

EffectFiles(hyps) ==
  Flatten([i \in 1..Len(hyps) |->
    IF ~hyps[i].is_F
      THEN << File("abs_effect" \o postfix(hyps, i) \o ".csv", "abs_effect", <<>>),
              File("std_effect" \o postfix(hyps, i) \o ".csv", "std_effect", <<>>) >>
      ELSE <<>>])

CondFiles(with_cond) ==
  IF with_cond THEN << File("cond.csv", "cond", <<>>) >> ELSE <<>>

StdevFiles == << File("std_dev.csv", "std_dev", <<>>) >>

AllStats ==
  /\ pc = "all_stats"
  /\ files' = files
              \o BetaFiles(NumFactors(design, extra_columns))
              \o EffectFiles(hypotheses)
              \o CondFiles(nans_in_data \/ Len(extra_columns) > 0)
              \o StdevFiles
  /\ calls' = Append(calls, Call("all_stats", NoMatrix, NoMatrix))
  /\ pc' = "glm"
  /\ UNCHANGED << error, warnings, notest >>
  /\ UNCHANGED configVars
  /\ UNCHANGED statVars
  /\ UNCHANGED permVars
  /\ UNCHANGED outsideRun

(***************************************************************************)
(* Lines 289-295: the GLM test is the variable variant when there are      *)
(* extra columns or nans_in_data is set, the fixed variant otherwise.      *)
(***************************************************************************)
GLMVariant(cols, nans) ==
  IF Len(cols) > 0 \/ nans THEN "TestVariable" ELSE "TestFixed"

ConstructGLM ==
  /\ pc = "glm"
  /\ glm_test' = GLMVariant(extra_columns, nans_in_data)
  /\ calls' = Append(calls, Call(glm_test', NoMatrix, NoMatrix))
  /\ pc' = "empirical"
  /\ UNCHANGED << error, warnings, files, empirical_statistic, default_output,
                  enhanced_output, notest >>
  /\ UNCHANGED configVars
  /\ UNCHANGED permVars
  /\ UNCHANGED outsideRun

(***************************************************************************)
(* Lines 297-303: the empirical statistic, computed and written only when  *)
(* -nonstationarity is given; otherwise the matrix stays empty.            *)
(***************************************************************************)
(***************************************************************************)
(* The variable variant of the GLM test rebuilds the design of every       *)
(* element from the subjects whose measurement and extra-column values at  *)
(* that element are finite, and reports a degenerate design when the rows  *)
(* that remain do not exceed the number of factors.  The fixed variant     *)
(* excludes nothing and reports nothing.  run() has no try block: the      *)
(* exception ends it.                                                      *)
(***************************************************************************)
DegenerateMessage == "degenerate design for element"

RemainingRows(d, cols, e) ==
  { s \in 1..Len(d) :
      /\ d[s][e] # NaN
      /\ \A c \in 1..Len(cols) : cols[c][s][e] # NaN }

\* the comparison written as `<`
Degenerate_less(d, cols, num_factors, e) ==
  Cardinality(RemainingRows(d, cols, e)) < num_factors

Degenerate(d, cols, num_factors, e) ==
  Cardinality(RemainingRows(d, cols, e)) <= num_factors

GLMReportsDegenerate(variant, d, cols, num_factors) ==
  /\ variant = "TestVariable"
  /\ \E e \in 1..Len(d[1]) : Degenerate(d, cols, num_factors, e)

EmpiricalFiles(prefix, hyps, empirical) ==
  [i \in 1..Len(hyps) |->
     File(prefix \o "empirical" \o postfix(hyps, i) \o ".csv",
          "empirical", Col(empirical, i))]

PrecomputeEmpirical(baselines) ==
  /\ pc = "empirical"
  /\ IF do_nonstationarity_adjustment
       THEN /\ calls' = Append(calls, Call("precompute_empirical_stat", NoMatrix, NoMatrix))
            /\ IF GLMReportsDegenerate(glm_test, data, extra_columns,
                                       NumFactors(design, extra_columns))
                 THEN /\ Throw(DegenerateMessage)
                      /\ UNCHANGED << empirical_statistic, files >>
                 ELSE \E e \in Matrices(NumEdges, NumHypotheses, baselines) :
                        /\ empirical_statistic' = e
                        /\ files' = files \o EmpiricalFiles(output_prefix, hypotheses, e)
                        /\ pc' = "default"
                        /\ error' = error
       ELSE /\ pc' = "default"
            /\ UNCHANGED << error, empirical_statistic, files, calls >>
  /\ UNCHANGED << warnings, glm_test, default_output, enhanced_output, notest >>
  /\ UNCHANGED configVars
  /\ UNCHANGED permVars
  /\ UNCHANGED outsideRun

(***************************************************************************)
(* Lines 305-314: the statistic and the enhanced statistic of the          *)
(* unpermuted data, and the files that hold them.  The pass-through        *)
(* enhancer returns the statistic unchanged; what the other enhancers and  *)
(* the non-stationarity adjustment return is any matrix of the same shape. *)
(***************************************************************************)
Enhanced(alg, adjusted, raw, stats) ==
  IF alg = "none" /\ ~adjusted
    THEN { raw }
    ELSE Matrices(Len(raw), Len(raw[1]), stats)

DefaultFiles(prefix, hyps, raw, enh) ==
  Flatten([i \in 1..Len(hyps) |->
    << IF hyps[i].is_F
         THEN File(prefix \o "Fvalue" \o postfix(hyps, i) \o ".csv",
                   "Fvalue", Square(Col(raw, i)))
         ELSE File(prefix \o "tvalue" \o postfix(hyps, i) \o ".csv",
                   "tvalue", Col(raw, i)),
       File(prefix \o "enhanced" \o postfix(hyps, i) \o ".csv",
            "enhanced", Col(enh, i)) >>])

\* line 307: the empirical statistic handed to precompute_default_permutation()
DefaultEmpirical == empirical_statistic

PrecomputeDefault(rawStats, stats) ==
  /\ pc = "default"
  /\ calls' = Append(calls, Call("precompute_default_permutation", DefaultEmpirical, NoMatrix))
  /\ IF GLMReportsDegenerate(glm_test, data, extra_columns,
                             NumFactors(design, extra_columns))
       THEN /\ Throw(DegenerateMessage)
            /\ UNCHANGED << default_output, enhanced_output, files >>
       ELSE /\ \E raw \in Matrices(NumEdges, NumHypotheses, rawStats) :
                 \E enh \in Enhanced(enhancer, do_nonstationarity_adjustment, raw, stats) :
                   /\ default_output' = raw
                   /\ enhanced_output' = enh
                   /\ files' = files \o DefaultFiles(output_prefix, hypotheses, raw, enh)
            /\ pc' = "notest"
            /\ error' = error
  /\ UNCHANGED << warnings, glm_test, empirical_statistic, notest >>
  /\ UNCHANGED configVars
  /\ UNCHANGED permVars
  /\ UNCHANGED outsideRun

(***************************************************************************)
(* Lines 316-327: unless -notest is given, read -strong, warn when it has  *)
(* no effect, and enter run_permutations() with empty accumulators.        *)
(***************************************************************************)
\* line 326 handing over a matrix that was never computed
PermutationEmpirical_none == NoMatrix

\* line 326: the empirical statistic handed to run_permutations()
PermutationEmpirical == empirical_statistic

\* line 326 handing over the statistic that was not enhanced
PermutationBasis_raw == default_output

\* line 326: the observed statistic handed to run_permutations()
PermutationBasis == enhanced_output

ZeroMatrix(rows, cols) == [r \in 1..rows |-> [c \in 1..cols |-> 0]]

\* line 317 entering the block whatever the option
TestSkipped_never(notest_given) == FALSE

\* line 317: if (!get_options ("notest").size())
TestSkipped(notest_given) == notest_given

StrongWarning(strong, num_hypotheses) == strong /\ num_hypotheses = 1

BeginPermutationTest ==
  /\ pc = "notest"
  /\ \E notest_given \in BOOLEAN :
       /\ notest' = IF notest_given THEN "given" ELSE "absent"
       /\ IF TestSkipped(notest_given)
         THEN /\ pc' = "done"
              /\ UNCHANGED << warnings, calls >>
              /\ UNCHANGED permVars
         ELSE \E strong \in BOOLEAN, n \in 1..MaxPerms :
              /\ calls' = Append(calls, Call("run_permutations", PermutationEmpirical,
                                             PermutationBasis))
              /\ fwe_strong' = strong
              /\ warnings' = IF StrongWarning(strong, NumHypotheses)
                               THEN warnings \cup {"Option -strong has no effect when testing a single hypothesis only"}
                               ELSE warnings
              /\ num_perms' = n
              /\ perm_index' = 0
              /\ null_distribution' = <<>>
              /\ null_contributions' = ZeroMatrix(NumEdges, NumHypotheses)
              /\ uncorrected_counts' = ZeroMatrix(NumEdges, NumHypotheses)
              /\ pc' = "permute"
              /\ UNCHANGED << perm_enhanced, uncorrected_pvalues, pvalue_output >>
  /\ UNCHANGED << error, files >>
  /\ UNCHANGED configVars
  /\ UNCHANGED statVars
  /\ UNCHANGED outsideRun

(***************************************************************************)
(* run_permutations(): one shuffle per step, in ascending index order.     *)
(* Shuffle 0 is the identity and reproduces the observed enhanced          *)
(* statistic; the statistic of any other shuffle is any matrix of the      *)
(* same shape.  Row i of the null distribution is the maximum enhanced     *)
(* statistic of shuffle i: one maximum per hypothesis, or one maximum over *)
(* all hypotheses under strong FWE.  An element's exceedance count grows   *)
(* when its permuted enhanced statistic is at least its observed one.      *)
(***************************************************************************)
ShuffledStatistic(index, observed, stats) ==
  IF index = 0 THEN { observed }
               ELSE Matrices(Len(observed), Len(observed[1]), stats)

NullRow(stat, strong) ==
  IF strong
    THEN << SetMax({ stat[e][h] : e \in 1..Len(stat), h \in 1..Len(stat[1]) }) >>
    ELSE [h \in 1..Len(stat[1]) |-> SetMax({ stat[e][h] : e \in 1..Len(stat) })]

CountExceedances(counts, stat, observed) ==
  [e \in 1..Len(counts) |-> [h \in 1..Len(counts[e]) |->
     counts[e][h] + (IF stat[e][h] >= observed[e][h] THEN 1 ELSE 0)]]

Permute(stats) ==
  /\ pc = "permute"
  /\ perm_index < num_perms
  /\ IF GLMReportsDegenerate(glm_test, data, extra_columns,
                             NumFactors(design, extra_columns))
       THEN /\ Throw(DegenerateMessage)
            /\ UNCHANGED << perm_enhanced, null_distribution, uncorrected_counts,
                            perm_index >>
       ELSE /\ \E stat \in ShuffledStatistic(perm_index, enhanced_output, stats) :
                 /\ perm_enhanced' = stat
                 /\ null_distribution' = Append(null_distribution, NullRow(stat, fwe_strong))
                 /\ uncorrected_counts' =
                      CountExceedances(uncorrected_counts, stat, PermutationBasis)
            /\ perm_index' = perm_index + 1
            /\ UNCHANGED << pc, error >>
  /\ UNCHANGED << warnings, files, fwe_strong, num_perms,
                  null_contributions, uncorrected_pvalues, pvalue_output >>
  /\ UNCHANGED configVars
  /\ UNCHANGED statVars
  /\ UNCHANGED logVars
  /\ UNCHANGED outsideRun

(***************************************************************************)
(* p-values.  A p-value is kept as the fraction num/den.                   *)
(***************************************************************************)
Fraction(num, den) == [num |-> num, den |-> den]

\* ExceedanceCounts / N
UncorrectedPvalues(counts, n) ==
  [e \in 1..Len(counts) |-> [h \in 1..Len(counts[e]) |-> Fraction(counts[e][h], n)]]

\* fwe_pvalue(): (count of null values >= observed value) / N, the null
\* column being the hypothesis's own, or the only one under strong FWE
fwe_pvalue(null, statistics) ==
  [e \in 1..Len(statistics) |-> [h \in 1..Len(statistics[e]) |->
     LET col == IF Len(null[1]) = 1 THEN 1 ELSE h
     IN  Fraction(Cardinality({ i \in 1..Len(null) : null[i][col] >= statistics[e][h] }),
                  Len(null))]]

\* line 335: the observed statistic handed to fwe_pvalue()
PvalueBasis == enhanced_output

\* line 335 handing over the statistic that was not enhanced
PvalueOutput_raw == fwe_pvalue(null_distribution, default_output)

\* line 335
PvalueOutput == fwe_pvalue(null_distribution, PvalueBasis)

(***************************************************************************)
(* Lines 328-340: the null distribution (one file under strong FWE, one    *)
(* per hypothesis otherwise) and, per hypothesis, the corrected p-values,  *)
(* uncorrected p-values and null contributions.                            *)
(***************************************************************************)
\* lines 328-333 without the strong branch
NullFiles_perHypothesis(prefix, hyps, strong, null) ==
  [i \in 1..Len(hyps) |->
     File(prefix \o "null_dist" \o postfix(hyps, i) \o ".txt",
          "null_dist", Col(null, 1))]

NullFiles(prefix, hyps, strong, null) ==
  IF strong
    THEN << File(prefix \o "null_dist.txt", "null_dist", Col(null, 1)) >>
    ELSE [i \in 1..Len(hyps) |->
            File(prefix \o "null_dist" \o postfix(hyps, i) \o ".txt",
                 "null_dist", Col(null, i))]

PvalueFiles(prefix, hyps, pvalues, uncorrected, contributions) ==
  Flatten([i \in 1..Len(hyps) |->
    << File(prefix \o "fwe_pvalue" \o postfix(hyps, i) \o ".csv",
            "fwe_pvalue", Col(pvalues, i)),
       File(prefix \o "uncorrected_pvalue" \o postfix(hyps, i) \o ".csv",
            "uncorrected_pvalue", Col(uncorrected, i)),
       File(prefix \o "null_contributions" \o postfix(hyps, i) \o ".csv",
            "null_contributions", Col(contributions, i)) >>])

WriteResults ==
  /\ pc = "permute"
  /\ perm_index = num_perms
  /\ uncorrected_pvalues' = UncorrectedPvalues(uncorrected_counts, num_perms)
  /\ pvalue_output' = PvalueOutput
  /\ calls' = Append(calls, Call("fwe_pvalue", NoMatrix, PvalueBasis))
  /\ files' = files
              \o NullFiles(output_prefix, hypotheses, fwe_strong, null_distribution)
              \o PvalueFiles(output_prefix, hypotheses, pvalue_output',
                             uncorrected_pvalues', null_contributions)
  /\ pc' = "done"
  /\ UNCHANGED << error, warnings, fwe_strong, num_perms, perm_index, perm_enhanced,
                  null_distribution, null_contributions, uncorrected_counts, notest >>
  /\ UNCHANGED configVars
  /\ UNCHANGED statVars
  /\ UNCHANGED outsideRun

(***************************************************************************)
(* Inputs.                                                                 *)
(***************************************************************************)
NumSubjects == 3        \* subjects of the cohort

\* number of non-finite measurements of a cohort
RECURSIVE CountNaN(_)
CountNaN(v) ==
  IF v = <<>> THEN 0 ELSE (IF Head(v) = NaN THEN 1 ELSE 0) + CountNaN(Tail(v))

Cohorts ==
  { c \in [1..NumSubjects -> SubjectVectors] : CountNaN(Flatten(c)) <= 1 }

\* the cohorts of finite data whose vectors have the greatest length
FiniteCohorts ==
  { c \in Cohorts : AllFinite(c) /\ \A s \in 1..NumSubjects : Len(c[s]) = MaxEdges }

Designs == { [rows |-> r, cols |-> 1] : r \in {NumSubjects, NumSubjects + 1} }
MatchingDesigns == { d \in Designs : d.rows = NumSubjects }

\* a -column input of n subjects: finite everywhere, or not finite for the
\* first subject's first element
ColumnCohort(n, edges, finite) ==
  [s \in 1..n |-> [e \in 1..edges |-> IF ~finite /\ s = 1 /\ e = 1 THEN NaN ELSE Finite]]

ColumnInputs ==
  { <<>> } \cup
  { << ColumnCohort(n, edges, finite) >> :
      n \in {NumSubjects, NumSubjects + 1}, edges \in 1..MaxEdges, finite \in BOOLEAN }

NoColumns == { <<>> }

Prefixes == { "out_", "stats/run_" }

(***************************************************************************)
(* Spec: every configuration, statistics over a single value.              *)
(* SpecStats: the valid configurations of finite data without extra        *)
(* columns, enhanced statistics over StatValues.                           *)
(***************************************************************************)
Next ==
  \/ ImportCohort(Cohorts)
  \/ InitialiseEnhancer
  \/ LoadDesign(Designs)
  \/ LoadColumns(ColumnInputs)
  \/ LoadHypotheses(1..3, Prefixes)
  \/ AgglomerateData
  \/ AllStats
  \/ ConstructGLM
  \/ PrecomputeEmpirical({1})
  \/ PrecomputeDefault({1}, {1})
  \/ BeginPermutationTest
  \/ Permute({1})
  \/ WriteResults

Spec == Init /\ [][Next]_vars

NextStats ==
  \/ ImportCohort(FiniteCohorts)
  \/ InitialiseEnhancer
  \/ LoadDesign(MatchingDesigns)
  \/ LoadColumns(NoColumns)
  \/ LoadHypotheses({1}, {"out_"})
  \/ AgglomerateData
  \/ AllStats
  \/ ConstructGLM
  \/ PrecomputeEmpirical({1})
  \/ PrecomputeDefault({0}, StatValues)
  \/ BeginPermutationTest
  \/ Permute(StatValues)
  \/ WriteResults

SpecStats == Init /\ [][NextStats]_vars

(***************************************************************************)
(* Properties of run().                                                    *)
(***************************************************************************)
ThresholdMessage == "For NBS algorithm, -threshold option must be provided"

\* nothing has been computed from the data and nothing has been written
NothingComputed ==
  /\ files = <<>>
  /\ glm_test = "null"
  /\ empirical_statistic = NoMatrix
  /\ default_output = NoMatrix
  /\ enhanced_output = NoMatrix
  /\ perm_index = 0
  /\ null_distribution = NoMatrix
  /\ pvalue_output = NoMatrix

\* the string `name` starts with the string `prefix`
StartsWith(name, prefix) ==
  /\ Len(name) >= Len(prefix)
  /\ SubSeq(name, 1, Len(prefix)) = prefix

\* C1: once the GLM test is constructed, it is the variable variant whenever
\* the data matrix holds a non-finite entry or an extra column is supplied,
\* and the fixed variant is never constructed on data with a non-finite entry.
C1_VariableVariantOnNonFiniteData ==
  glm_test # "null" =>
    /\ (~AllFinite(data) \/ Len(extra_columns) > 0) => glm_test = "TestVariable"
    /\ glm_test = "TestFixed" => AllFinite(data)

\* C2: when the design matrix's row count differs from the number of
\* subjects, or two subjects' element vectors differ in length, run() has
\* ended with an error and nothing was computed or written.
C2_ShapeMismatchIsFatal ==
  ( \/ \E i, j \in 1..Len(importer) : Len(importer[i]) # Len(importer[j])
    \/ design # NoMatrix /\ design.rows # Len(importer) )
  => pc = "failed" /\ error # "none" /\ NothingComputed

C2_Witness ==
  /\ pc = "failed"
  /\ design # NoMatrix
  /\ design.rows # Len(importer)
  /\ enhancer # "null"

\* C3: a run in which some -column input has a subject count different from
\* the cohort's never enters the permutation loop and never completes.
C3_ColumnSubjectCountIsChecked ==
  (\E i \in 1..Len(extra_columns) : Len(extra_columns[i]) # Len(importer))
  => pc \notin {"permute", "done"}

C5_ThresholdRequiredByNBSOnly ==
  /\ (algorithm = "nbs" /\ threshold = "absent") =>
        /\ pc = "failed"
        /\ error = ThresholdMessage
        /\ design = NoMatrix
        /\ hypotheses = <<>>
        /\ NothingComputed
  /\ error = ThresholdMessage => algorithm = "nbs" /\ threshold = "absent"
  /\ algorithm \in {"nbse", "none"} => enhancer = algorithm

C5_Witness ==
  /\ algorithm = "nbs"
  /\ threshold = "absent"
  /\ error = ThresholdMessage

\* C6: the name of every file written starts with the output prefix.
C6_OutputsCarryPrefix ==
  pc \in {"all_stats", "glm", "empirical", "default", "notest", "permute", "done"} =>
    \A k \in 1..Len(files) : StartsWith(files[k].name, output_prefix)

(***************************************************************************)
(* Properties of the permutation test.                                     *)
(***************************************************************************)
StrongMessage == "Option -strong has no effect when testing a single hypothesis only"

\* the last n files written
LastFiles(n) == SubSeq(files, Len(files) - n + 1, Len(files))

\* the number of files of a kind among the files written
FilesOfKind(kind) == Cardinality({ k \in 1..Len(files) : files[k].kind = kind })

\* maximum over the elements of hypothesis h of a statistic
MaxOverElements(stat, h) == SetMax({ stat[e][h] : e \in 1..Len(stat) })

\* number of rows of column col of the null distribution that are >= value
NullAtLeast(col, value) ==
  Cardinality({ i \in 1..Len(null_distribution) : null_distribution[i][col] >= value })

PermutationsRan == pc = "done" /\ num_perms > 0

\* C7: with one hypothesis, -strong only adds a warning: no error is raised,
\* every row of the null distribution is the per-hypothesis row, and the files
\* the permutation test writes (names and contents) are those of the run
\* without -strong.
C7_StrongWithOneHypothesisIsNoOp ==
  (fwe_strong /\ Len(hypotheses) = 1) =>
    /\ StrongMessage \in warnings
    /\ error = "none" /\ pc # "failed"
    /\ \A i \in 1..Len(null_distribution) : Len(null_distribution[i]) = Len(hypotheses)
    /\ perm_index > 0 =>
         null_distribution[perm_index] = << MaxOverElements(perm_enhanced, 1) >>
    /\ pc = "done" =>
         LastFiles(4) =
           NullFiles(output_prefix, hypotheses, FALSE, null_distribution)
           \o PvalueFiles(output_prefix, hypotheses,
                [e \in 1..NumEdges |->
                   << Fraction(NullAtLeast(1, enhanced_output[e][1]), num_perms) >>],
                uncorrected_pvalues, null_contributions)

C7_Witness ==
  /\ pc = "done"
  /\ fwe_strong
  /\ Len(hypotheses) = 1
  /\ num_perms = 2
  /\ null_distribution = << <<1>>, <<0>> >>

\* C8: row i of the null distribution is the maximum enhanced statistic of
\* shuffle i, over all elements and hypotheses in a single column under
\* strong FWE, over the elements of each hypothesis in one column per
\* hypothesis otherwise; one null-distribution file is written under strong
\* FWE and one per hypothesis otherwise, and in both modes one corrected
\* p-value, uncorrected p-value and null-contribution file per hypothesis.
C8_NullDistributionShape ==
  LET H == Len(hypotheses)
      width == IF fwe_strong THEN 1 ELSE H
  IN  /\ pc \in {"permute", "done"} /\ num_perms > 0 =>
            /\ Len(null_distribution) = perm_index
            /\ \A i \in 1..perm_index : Len(null_distribution[i]) = width
            /\ perm_index > 0 =>
                 IF fwe_strong
                   THEN null_distribution[perm_index][1] =
                          SetMax({ MaxOverElements(perm_enhanced, h) : h \in 1..H })
                   ELSE \A h \in 1..H : null_distribution[perm_index][h] =
                                           MaxOverElements(perm_enhanced, h)
      /\ PermutationsRan =>
            /\ Len(null_distribution) = num_perms
            /\ FilesOfKind("null_dist") = width
            /\ FilesOfKind("fwe_pvalue") = H
            /\ FilesOfKind("uncorrected_pvalue") = H
            /\ FilesOfKind("null_contributions") = H

C8_Witness ==
  /\ PermutationsRan
  /\ fwe_strong
  /\ Len(hypotheses) = 2
  /\ num_perms = 2
  /\ NumEdges = 2
  /\ MaxOverElements(perm_enhanced, 1) = 0
  /\ MaxOverElements(perm_enhanced, 2) = 1
  /\ null_distribution[2] = <<1>>

\* C9: after N >= 1 shuffles every corrected p-value is (number of values of
\* the hypothesis's null column that are >= the observed enhanced value) / N,
\* and lies in [1/N, 1].
C9_CorrectedPvalueRange ==
  PermutationsRan =>
    \A e \in 1..NumEdges, h \in 1..Len(hypotheses) :
      LET p == pvalue_output[e][h]
          col == IF fwe_strong THEN 1 ELSE h
      IN  /\ p.den = num_perms
          /\ p.num = NullAtLeast(col, enhanced_output[e][h])
          /\ 1 <= p.num /\ p.num <= p.den

C9_Witness ==
  /\ PermutationsRan
  /\ num_perms = 2
  /\ NumEdges = 2
  /\ pvalue_output[1][1] = Fraction(1, 2)
  /\ pvalue_output[2][1] = Fraction(2, 2)

\* C10: after N shuffles every uncorrected p-value is the element's
\* exceedance count / N and is at most the element's corrected p-value.
C10_UncorrectedAtMostCorrected ==
  PermutationsRan =>
    \A e \in 1..NumEdges, h \in 1..Len(hypotheses) :
      LET u == uncorrected_pvalues[e][h]
          c == pvalue_output[e][h]
      IN  /\ u.num = uncorrected_counts[e][h]
          /\ u.den = num_perms
          /\ u.num * c.den <= c.num * u.den

C10_Witness ==
  /\ PermutationsRan
  /\ num_perms = 2
  /\ \E e \in 1..NumEdges, h \in 1..Len(hypotheses) :
       /\ uncorrected_pvalues[e][h] = Fraction(1, 2)
       /\ pvalue_output[e][h] = Fraction(2, 2)

(***************************************************************************)
(* Properties of run(): failure of the GLM test, order of the pipeline,    *)
(* -notest.                                                                *)
(***************************************************************************)
\* the library calls made so far that evaluate the GLM test
GLMEvaluations ==
  { k \in 1..Len(calls) :
      calls[k].fn \in {"precompute_empirical_stat", "precompute_default_permutation"} }

\* the subjects whose values at element e are all finite
FiniteSubjects(e) ==
  { s \in 1..Len(data) :
      data[s][e] # NaN /\ \A c \in 1..Len(extra_columns) : extra_columns[c][s][e] # NaN }

\* the elements whose design is degenerate: the rows that remain do not
\* exceed the number of factors
DegenerateElements ==
  { e \in 1..Len(data[1]) :
      Cardinality(FiniteSubjects(e)) <= design.cols + Len(extra_columns) }

\* C11: when the variable GLM test has been evaluated on data with a
\* degenerate element, run() has ended with the degenerate-design error: no
\* observed statistic exists, no shuffle was processed, and no null
\* distribution or p-value file was written.
C11_DegenerateDesignAborts ==
  (glm_test = "TestVariable" /\ DegenerateElements # {}) =>
    /\ pc \notin {"notest", "permute", "done"}
    /\ GLMEvaluations # {} => pc = "failed" /\ error = DegenerateMessage
    /\ default_output = NoMatrix /\ enhanced_output = NoMatrix
    /\ perm_index = 0 /\ null_distribution = NoMatrix
    /\ FilesOfKind("null_dist") = 0
    /\ FilesOfKind("fwe_pvalue") = 0
    /\ FilesOfKind("uncorrected_pvalue") = 0

C11_Witness ==
  /\ pc = "failed"
  /\ error = DegenerateMessage
  /\ Len(data[1]) = 2
  /\ DegenerateElements = {1}
  /\ Cardinality(FiniteSubjects(1)) = design.cols + Len(extra_columns)

\* the names of the library calls made so far, in order
CallNames == [k \in 1..Len(calls) |-> calls[k].fn]

\* the positions of the calls of a library routine
CallsOf(fn) == { k \in 1..Len(calls) : calls[k].fn = fn }

\* the order in which a run makes its library calls
PipelineOrder ==
  << "all_stats", glm_test >>
  \o (IF do_nonstationarity_adjustment THEN << "precompute_empirical_stat" >> ELSE <<>>)
  \o << "precompute_default_permutation", "run_permutations", "fwe_pvalue" >>

\* C15: the library calls of a run are made in the order all_stats, GLM test
\* construction, empirical statistic (if and only if -nonstationarity),
\* observed statistic, permutation loop, FWE p-values, each at most once;
\* the observed statistic, the permutation loop and the p-value calculation
\* are handed the empirical statistic (empty when not requested) and the
\* observed enhanced statistic that the run holds.
C15_PipelineOrder ==
  /\ glm_test = "null" => Len(calls) <= 1 /\ CallNames = SubSeq(<<"all_stats">>, 1, Len(calls))
  /\ glm_test # "null" =>
       /\ Len(calls) <= Len(PipelineOrder)
       /\ CallNames = SubSeq(PipelineOrder, 1, Len(calls))
       /\ FilesOfKind("std_dev") = 1
       /\ FilesOfKind("beta") = design.cols + Len(extra_columns)
  /\ ~do_nonstationarity_adjustment => empirical_statistic = NoMatrix
  /\ default_output # NoMatrix =>
       /\ do_nonstationarity_adjustment => empirical_statistic # NoMatrix
       /\ FilesOfKind("empirical") =
            (IF do_nonstationarity_adjustment THEN Len(hypotheses) ELSE 0)
  /\ perm_index > 0 => default_output # NoMatrix /\ enhanced_output # NoMatrix
  /\ \A k \in CallsOf("precompute_default_permutation") :
       calls[k].empirical = empirical_statistic
  /\ \A k \in CallsOf("run_permutations") :
       /\ calls[k].empirical = empirical_statistic
       /\ calls[k].observed = enhanced_output
       /\ enhanced_output # NoMatrix
  /\ \A k \in CallsOf("fwe_pvalue") : calls[k].observed = enhanced_output
  /\ perm_index > 0 => null_distribution[1] = NullRow(enhanced_output, fwe_strong)

C15_Witness ==
  /\ pc = "done"
  /\ do_nonstationarity_adjustment
  /\ CallNames = PipelineOrder
  /\ num_perms = 2
  /\ glm_test = "TestVariable"
  /\ Len(hypotheses) = 2

\* C16: with -notest the run ends without entering the permutation test: no
\* shuffle is processed, no null distribution, p-value or null-contribution
\* file is written and -strong raises no warning, while the auxiliary
\* outputs, the empirical statistic (if requested) and every hypothesis's
\* t or F value and enhanced statistic are written.
C16_NoTest ==
  notest = "given" =>
    /\ pc = "done"
    /\ CallsOf("run_permutations") = {} /\ CallsOf("fwe_pvalue") = {}
    /\ num_perms = 0 /\ perm_index = 0
    /\ null_distribution = NoMatrix /\ pvalue_output = NoMatrix
    /\ uncorrected_pvalues = NoMatrix
    /\ FilesOfKind("null_dist") = 0
    /\ FilesOfKind("fwe_pvalue") = 0
    /\ FilesOfKind("uncorrected_pvalue") = 0
    /\ FilesOfKind("null_contributions") = 0
    /\ StrongMessage \notin warnings
    /\ FilesOfKind("beta") = design.cols + Len(extra_columns)
    /\ FilesOfKind("std_dev") = 1
    /\ FilesOfKind("empirical") =
         (IF do_nonstationarity_adjustment THEN Len(hypotheses) ELSE 0)
    /\ FilesOfKind("tvalue") + FilesOfKind("Fvalue") = Len(hypotheses)
    /\ FilesOfKind("enhanced") = Len(hypotheses)
    /\ \A i \in 1..Len(hypotheses) :
         \E k \in 1..Len(files) :
           /\ files[k].kind = (IF hypotheses[i].is_F THEN "Fvalue" ELSE "tvalue")
           /\ files[k].name = output_prefix \o files[k].kind
                                \o postfix(hypotheses, i) \o ".csv"

C16_Witness ==
  /\ notest = "given"
  /\ pc = "done"
  /\ do_nonstationarity_adjustment
  /\ Len(hypotheses) = 2
  /\ hypotheses[2].is_F
  /\ Len(extra_columns) = 1


(***************************************************************************)
(* run_permutations() with worker threads.  The shuffler is the single     *)
(* source of shuffles: a worker that is free takes the next shuffle, the   *)
(* index handed out growing by one each time.  The worker computes the     *)
(* statistic of its shuffle, writes the row of the shared null             *)
(* distribution that has the shuffle's index, and adds the exceedances to  *)
(* counts of its own; when no shuffle is left the worker's counts are      *)
(* merged into the shared ones.  Workers finish their shuffles in any      *)
(* order.                                                                  *)
(***************************************************************************)
MaxShuffles == 2       \* largest number of shuffles requested from the loop
MaxWorkers == 2        \* largest number of worker threads

IdleWorker(counts) ==
  [state |-> "idle", index |-> 0, stat |-> NoMatrix, counts |-> counts]

MatrixSum(a, b) ==
  [e \in 1..Len(a) |-> [h \in 1..Len(a[e]) |-> a[e][h] + b[e][h]]]

\* the row is the next one not yet written
RowOf_completion(index, completed) == completed + 1

\* the row of the null distribution that the shuffle of an index owns
RowOf(index, completed) == index + 1

StartLoop(counts, statistics) ==
  /\ loop_state = "idle"
  /\ \E n \in counts, k \in 1..MaxWorkers, obs \in statistics :
       /\ num_shuffles' = n
       /\ loop_observed' = obs
       /\ workers' = [w \in 1..k |-> IdleWorker(ZeroMatrix(Len(obs), Len(obs[1])))]
       /\ null_dist' = [i \in 1..n |-> <<>>]
       /\ row_writes' = [i \in 1..n |-> 0]
       /\ exceedances' = ZeroMatrix(Len(obs), Len(obs[1]))
  /\ next_shuffle' = 0
  /\ shuffles' = <<>>
  /\ completion' = <<>>
  /\ loop_state' = "running"
  /\ UNCHANGED << runVars, shufflerVars, shbasisVars, sceneVars >>

TakeShuffle(w, stats) ==
  /\ loop_state = "running"
  /\ workers[w].state = "idle"
  /\ next_shuffle < num_shuffles
  /\ \E stat \in ShuffledStatistic(next_shuffle, loop_observed, stats) :
       /\ workers' = [workers EXCEPT ![w].state = "busy",
                                     ![w].index = next_shuffle,
                                     ![w].stat = stat]
       /\ shuffles' = Append(shuffles, stat)
  /\ next_shuffle' = next_shuffle + 1
  /\ UNCHANGED << loop_state, num_shuffles, loop_observed, null_dist, row_writes,
                  exceedances, completion >>
  /\ UNCHANGED << runVars, shufflerVars, shbasisVars, sceneVars >>

ProcessShuffle(w) ==
  /\ loop_state = "running"
  /\ workers[w].state = "busy"
  /\ LET row == RowOf(workers[w].index, Len(completion))
     IN  /\ null_dist' = [null_dist EXCEPT ![row] = NullRow(workers[w].stat, FALSE)]
         /\ row_writes' = [row_writes EXCEPT ![row] = @ + 1]
  /\ workers' = [workers EXCEPT
                   ![w].state = "idle",
                   ![w].stat = NoMatrix,
                   ![w].counts = CountExceedances(@, workers[w].stat, loop_observed)]
  /\ completion' = Append(completion, workers[w].index)
  /\ UNCHANGED << loop_state, num_shuffles, next_shuffle, loop_observed, shuffles,
                  exceedances >>
  /\ UNCHANGED << runVars, shufflerVars, shbasisVars, sceneVars >>

JoinWorker(w) ==
  /\ loop_state = "running"
  /\ workers[w].state = "idle"
  /\ next_shuffle = num_shuffles
  /\ exceedances' = MatrixSum(exceedances, workers[w].counts)
  /\ workers' = [workers EXCEPT ![w].state = "joined"]
  /\ UNCHANGED << loop_state, num_shuffles, next_shuffle, loop_observed, shuffles,
                  null_dist, row_writes, completion >>
  /\ UNCHANGED << runVars, shufflerVars, shbasisVars, sceneVars >>

FinishLoop ==
  /\ loop_state = "running"
  /\ \A w \in 1..Len(workers) : workers[w].state = "joined"
  /\ loop_state' = "finished"
  /\ UNCHANGED << num_shuffles, next_shuffle, loop_observed, shuffles, workers,
                  null_dist, row_writes, exceedances, completion >>
  /\ UNCHANGED << runVars, shufflerVars, shbasisVars, sceneVars >>

\* the observed statistics of the loop: MaxEdges elements, one hypothesis
LoopStatistics == Matrices(MaxEdges, 1, StatValues)

NextLoop ==
  \/ StartLoop(1..MaxShuffles, LoopStatistics)
  \/ \E w \in 1..Len(workers) : TakeShuffle(w, StatValues)
  \/ \E w \in 1..Len(workers) : ProcessShuffle(w)
  \/ \E w \in 1..Len(workers) : JoinWorker(w)
  \/ FinishLoop

SpecLoop == Init /\ [][NextLoop]_vars

(***************************************************************************)
(* Properties of the permutation loop with worker threads.                 *)
(***************************************************************************)
\* the null distribution of the single-threaded loop over the same shuffles
SequentialNull(ss) == [i \in 1..Len(ss) |-> NullRow(ss[i], FALSE)]

\* the exceedance counts of the single-threaded loop over the same shuffles
RECURSIVE SequentialCounts(_, _)
SequentialCounts(ss, obs) ==
  IF ss = <<>>
    THEN ZeroMatrix(Len(obs), Len(obs[1]))
    ELSE CountExceedances(SequentialCounts(SubSeq(ss, 1, Len(ss) - 1), obs),
                          ss[Len(ss)], obs)

BusyWorkers == { w \in 1..Len(workers) : workers[w].state = "busy" }

\* C12: whatever the number of workers and the order in which they finish,
\* the null distribution has one row per requested shuffle, no row is
\* written twice, shuffles are handed out in ascending index order, row i
\* holds the maximum of the i-th shuffle handed out, and when the loop has
\* finished the null distribution and the exceedance counts are those of
\* the single-threaded loop over the same shuffles.
C12_ParallelAccumulation ==
  loop_state # "idle" =>
    /\ Len(null_dist) = num_shuffles
    /\ Len(shuffles) = next_shuffle
    /\ next_shuffle <= num_shuffles
    /\ next_shuffle > 0 => shuffles[1] = loop_observed
    /\ \A w \in BusyWorkers :
         /\ workers[w].index < next_shuffle
         /\ workers[w].stat = shuffles[workers[w].index + 1]
         /\ row_writes[workers[w].index + 1] = 0
         /\ \A v \in BusyWorkers : v # w => workers[v].index # workers[w].index
    /\ \A i \in 1..num_shuffles :
         /\ row_writes[i] <= 1
         /\ row_writes[i] = 0 => null_dist[i] = <<>>
         /\ row_writes[i] = 1 =>
              /\ i <= Len(shuffles)
              /\ null_dist[i] = NullRow(shuffles[i], FALSE)
    /\ loop_state = "finished" =>
         /\ Len(shuffles) = num_shuffles
         /\ \A i \in 1..num_shuffles : row_writes[i] = 1
         /\ null_dist = SequentialNull(shuffles)
         /\ exceedances = SequentialCounts(shuffles, loop_observed)

C12_Witness ==
  /\ loop_state = "finished"
  /\ num_shuffles = 2
  /\ Len(workers) = 2
  /\ completion = << 1, 0 >>
  /\ null_dist[1] # null_dist[2]
  /\ exceedances # ZeroMatrix(Len(loop_observed), 1)


(***************************************************************************)
(* The shuffler.  An arrangement gives every subject the label of a        *)
(* subject of its own exchangeability block.  The first arrangement        *)
(* emitted is the identity; every further one is drawn at random among the *)
(* arrangements the blocks allow and emitted unless it was emitted before. *)
(* A duplicate is drawn again, and the request fails once MaxRetries       *)
(* duplicates in a row have been drawn.                                    *)
(***************************************************************************)
MaxRequested == 3      \* largest number of arrangements requested
MaxRetries == 2        \* duplicates drawn in a row before the request fails

Subjects == 1..NumSubjects

Identity == [s \in Subjects |-> s]

\* the block assignments: the first subject is in block 1, and a subject
\* opens block b + 1 only when blocks 1..b hold earlier subjects
Blockings ==
  { b \in [Subjects -> Subjects] :
      /\ b[1] = 1
      /\ \A s \in Subjects : s > 1 => \E r \in 1..(s - 1) : b[s] <= b[r] + 1 }

\* the bijections of the subjects that move labels within blocks only
Arrangements(b) ==
  { a \in [Subjects -> Subjects] :
      /\ \A s, r \in Subjects : s # r => a[s] # a[r]
      /\ \A s \in Subjects : b[a[s]] = b[s] }

\* the comparison leaving out the first arrangement emitted
IsDuplicate_nonIdentity(a, emitted) ==
  \E i \in 2..Len(emitted) : emitted[i] = a

IsDuplicate(a, emitted) ==
  \E i \in 1..Len(emitted) : emitted[i] = a

\* the count left as it was
NextRetries_same(r) == r

NextRetries(r) == r + 1

RequestShuffles(counts, blockings) ==
  /\ shuffler_state = "idle"
  /\ \E n \in counts, b \in blockings :
       /\ nshuffles' = n
       /\ blocks' = b
  /\ permutations' = << Identity >>
  /\ retries' = 0
  /\ shuffler_state' = "generating"
  /\ UNCHANGED << runVars, loopVars, shbasisVars, sceneVars >>

EmitShuffle ==
  /\ shuffler_state = "generating"
  /\ Len(permutations) < nshuffles
  /\ \E a \in Arrangements(blocks) :
       /\ ~IsDuplicate(a, permutations)
       /\ permutations' = Append(permutations, a)
  /\ retries' = 0
  /\ UNCHANGED << shuffler_state, nshuffles, blocks >>
  /\ UNCHANGED << runVars, loopVars, shbasisVars, sceneVars >>

RetryShuffle ==
  /\ shuffler_state = "generating"
  /\ Len(permutations) < nshuffles
  /\ retries < MaxRetries
  /\ \E a \in Arrangements(blocks) : IsDuplicate(a, permutations)
  /\ retries' = NextRetries(retries)
  /\ UNCHANGED << shuffler_state, nshuffles, blocks, permutations >>
  /\ UNCHANGED << runVars, loopVars, shbasisVars, sceneVars >>

FailShuffles ==
  /\ shuffler_state = "generating"
  /\ Len(permutations) < nshuffles
  /\ retries >= MaxRetries
  /\ \E a \in Arrangements(blocks) : IsDuplicate(a, permutations)
  /\ shuffler_state' = "failed"
  /\ UNCHANGED << nshuffles, blocks, permutations, retries >>
  /\ UNCHANGED << runVars, loopVars, shbasisVars, sceneVars >>

FinishShuffles ==
  /\ shuffler_state = "generating"
  /\ Len(permutations) = nshuffles
  /\ shuffler_state' = "finished"
  /\ UNCHANGED << nshuffles, blocks, permutations, retries >>
  /\ UNCHANGED << runVars, loopVars, shbasisVars, sceneVars >>

NextShuffler ==
  \/ RequestShuffles(1..MaxRequested, Blockings)
  \/ EmitShuffle
  \/ RetryShuffle
  \/ FailShuffles
  \/ FinishShuffles

\* the generator is a loop of one thread: it keeps taking steps
SpecShuffler == Init /\ [][NextShuffler]_vars /\ WF_vars(NextShuffler)

(***************************************************************************)
(* Properties of the shuffler.                                             *)
(***************************************************************************)
ShufflerEnded == shuffler_state \in {"finished", "failed"}

RespectsBlocks(a) == \A s \in Subjects : blocks[a[s]] = blocks[s]

NoneEmittedTwice ==
  \A i, j \in 1..Len(permutations) : i # j => permutations[i] # permutations[j]

\* C13 as stated: every request ends with exactly the requested number of
\* arrangements emitted, the first of them the identity, all of them within
\* the blocks and no two of them equal.
C13_EmitsExactlyN ==
  ShufflerEnded =>
    /\ Len(permutations) = nshuffles
    /\ permutations[1] = Identity
    /\ \A i \in 1..Len(permutations) : RespectsBlocks(permutations[i])
    /\ NoneEmittedTwice

\* C13: the arrangements emitted are at most the requested number, the
\* first is the identity, every one moves labels within blocks only and
\* none, the identity included, is emitted twice; a request that finishes
\* has emitted exactly the requested number, and a request that fails has
\* emitted fewer.
C13_ShufflerSequence ==
  shuffler_state # "idle" =>
    /\ Len(permutations) >= 1
    /\ Len(permutations) <= nshuffles
    /\ permutations[1] = Identity
    /\ \A i \in 1..Len(permutations) :
         /\ permutations[i] \in Arrangements(blocks)
         /\ RespectsBlocks(permutations[i])
    /\ NoneEmittedTwice
    /\ shuffler_state = "finished" => Len(permutations) = nshuffles
    /\ shuffler_state = "failed" => Len(permutations) < nshuffles

C13_Witness ==
  /\ shuffler_state = "finished"
  /\ nshuffles = 3
  /\ Len(permutations) = 3
  /\ Cardinality({ blocks[s] : s \in Subjects }) = 1
  /\ retries = 0

\* C14: a request always ends, finished or failed; the duplicates drawn in
\* a row never exceed MaxRetries; and a request for more arrangements than
\* the blocks allow ends failed.
C14_ShufflerTerminates ==
  /\ <>ShufflerEnded
  /\ [](retries <= MaxRetries)
  /\ [](shuffler_state = "finished" => nshuffles <= Cardinality(Arrangements(blocks)))
  /\ [](shuffler_state = "failed" => retries = MaxRetries)

C14_Witness ==
  /\ shuffler_state = "failed"
  /\ retries = MaxRetries
  /\ nshuffles > Cardinality(Arrangements(blocks))
  /\ Len(permutations) = Cardinality(Arrangements(blocks))
  /\ Len(permutations) = 2


(***************************************************************************)
(* cmd/shbasis.cpp.                                                        *)
(*                                                                         *)
(* An image is [ndim, floating, vols]: vols holds one sequence of voxel    *)
(* values per volume, volume v of the code being vols[v + 1].  A voxel     *)
(* value is m * sqrt(2)^k, kept as [m, k], so that multiplying by M_SQRT2  *)
(* or by 1.0 / M_SQRT2 is exact and the square of a value is the integer   *)
(* m * m * 2^k.  A power ratio is kept as the fraction num/den; a zero     *)
(* denominator is the division by zero of line 176, whose result compares  *)
(* as an infinity (num > 0) or as a NaN (num = 0).  The comparisons of     *)
(* lines 233 and 238 are made on regression.first.                         *)
(***************************************************************************)
MaxImages == 2         \* largest number of image arguments

\* Math::SH::NforL(): number of coefficients of an even series up to order l
NforL(l) == ((l + 1) * (l + 2)) \div 2

\* Math::SH::LforN(): the greatest even order whose series fits N volumes
LforN(N) ==
  IF N = 0 THEN 0
  ELSE SetMax({ l \in 0..N : l % 2 = 0 /\ NforL(l) <= N })

\* Math::SH::index (l, 0)
index(l) == (l * (l + 1)) \div 2

EvenOrders(lmax) == { l \in 2..lmax : l % 2 = 0 }

\* lines 116-118: BitSet mzero_terms
mzero_terms(lmax) == { index(l) : l \in EvenOrders(lmax) }

Value(m, k) == [m |-> m, k |-> k]

RECURSIVE Pow2(_)
Pow2(k) == IF k = 0 THEN 1 ELSE 2 * Pow2(k - 1)

\* Math::pow2 (v.value())
Squared(value) == value.m * value.m * Pow2(value.k)

RECURSIVE SumOver(_, _)
SumOver(S, f) ==
  IF S = {} THEN 0
  ELSE LET x == CHOOSE y \in S : TRUE IN f[x] + SumOver(S \ {x}, f)

Voxels(image) == 1..Len(image.vols[1])

\* lines 131-140: the voxels whose DC term is not zero
Mask(image) == { x \in Voxels(image) : image.vols[1][x].m # 0 }

\* lines 159-163: the sum of squares of a volume within the mask
VolumeSum(image, v) ==
  SumOver(Mask(image), [x \in Mask(image) |-> Squared(image.vols[v + 1][x])])

\* lines 154-177: the power ratio of order l
PowerRatio(image, l, lmax) ==
  LET volumes == NforL(l - 2)..(NforL(l) - 1)
      zero == volumes \cap mzero_terms(lmax)
      nonzero == volumes \ mzero_terms(lmax)
      mzero_sum == SumOver(zero, [v \in zero |-> VolumeSum(image, v)])
      mnonzero_sum == SumOver(nonzero, [v \in nonzero |-> VolumeSum(image, v)])
  IN  [num |-> mnonzero_sum, den |-> 2 * l * mzero_sum]

\* lines 195-207: the ratio the decision is made on (lmax 2: the ratio of
\* order 2; lmax 4: the ratio of order 4)
DecisionRatio(image) ==
  LET lmax == LforN(Len(image.vols))
  IN  IF lmax = 2 THEN PowerRatio(image, 2, lmax) ELSE PowerRatio(image, 4, lmax)

\* ratio > p/q
GreaterThan(ratio, p, q) ==
  IF ratio.den = 0 THEN ratio.num > 0 ELSE ratio.num * q > p * ratio.den

\* ratio < p/q
LessThan(ratio, p, q) ==
  IF ratio.den = 0 THEN FALSE ELSE ratio.num * q < p * ratio.den

\* line 233
AppearsOld(ratio) == GreaterThan(ratio, 5, 3) /\ LessThan(ratio, 7, 3)

\* line 238
AppearsNew(ratio) == GreaterThan(ratio, 2, 3) /\ LessThan(ratio, 4, 3)

\* lines 232-246: multiplier, as [zero, k]: 0.0, or sqrt(2)^k
Multiplier(ratio, old, new) ==
  IF AppearsOld(ratio)
    THEN [zero |-> FALSE, k |-> IF new THEN -1 ELSE 0]
  ELSE IF AppearsNew(ratio)
    THEN [zero |-> FALSE, k |-> IF old THEN 1 ELSE 0]
  ELSE [zero |-> TRUE, k |-> 0]

\* line 255: if (multiplier && (multiplier != 1.0))
Modifies(multiplier) == ~multiplier.zero /\ multiplier.k # 0

\* line 259: for (v[3] = 1; v[3] != N; ++v[3])
FirstVolume == 1

\* the loop of lines 259-265 without the test of line 260
ModifiedVolumes_all(N, lmax) == FirstVolume..(N - 1)

\* lines 259-265: the volumes whose voxels are multiplied
ModifiedVolumes(N, lmax) ==
  { v \in FirstVolume..(N - 1) : v \notin mzero_terms(lmax) }

\* line 262: v.value() *= multiplier
Scaled(image, volumes, multiplier) ==
  [image EXCEPT !.vols =
     [i \in 1..Len(image.vols) |->
        IF (i - 1) \in volumes
          THEN [x \in Voxels(image) |->
                  Value(image.vols[i][x].m, image.vols[i][x].k + multiplier.k)]
          ELSE image.vols[i]]]

ExclusiveMessage == "Options -force_old and -force_new are mutually exclusive"
NativeMessage == "Option -force_native cannot be used in conjunction with one of the other -force options"

ShThrow(msg) == sh_pc' = "failed" /\ sh_error' = msg

\* lines 287-301; native_new is the build without USE_NON_ORTHONORMAL_SH_BASIS
ReadForceOptions(images) ==
  /\ sh_pc = "options"
  /\ \E old \in BOOLEAN, new \in BOOLEAN, native \in BOOLEAN, native_new \in BOOLEAN :
       IF old /\ new
         THEN /\ ShThrow(ExclusiveMessage)
              /\ force_old' = old /\ force_new' = new
       ELSE IF native /\ (old \/ new)
         THEN /\ ShThrow(NativeMessage)
              /\ force_old' = old /\ force_new' = new
       ELSE /\ force_old' = (old \/ (native /\ ~native_new))
            /\ force_new' = (new \/ (native /\ native_new))
            /\ sh_pc' = "open"
            /\ sh_error' = sh_error
  /\ \E n \in 1..MaxImages : \E a \in [1..n -> images] :
       /\ argument' = a
       /\ given' = a
  /\ UNCHANGED << next_argument, headers, buffers, written >>
  /\ UNCHANGED << runVars, loopVars, shufflerVars, sceneVars >>

\* lines 303-315
OpenHeader ==
  /\ sh_pc = "open"
  /\ next_argument <= Len(argument)
  /\ headers' = headers + 1
  /\ LET H == argument[next_argument]
         lmax == LforN(Len(H.vols))
     IN  IF H.ndim # 4
           THEN ShThrow("Image is not 4D and therefore cannot be an SH image")
         ELSE IF lmax = 0
           THEN ShThrow("Image does not contain enough volumes to be an SH image")
         ELSE IF NforL(lmax) # Len(H.vols)
           THEN ShThrow("Image does not contain a number of volumes appropriate for an SH image")
         ELSE IF ~H.floating
           THEN ShThrow("Image does not use a floating-point format and therefore cannot be an SH image")
         ELSE sh_pc' = "check" /\ sh_error' = sh_error
  /\ UNCHANGED << force_old, force_new, argument, given, next_argument, buffers, written >>
  /\ UNCHANGED << runVars, loopVars, shufflerVars, sceneVars >>

\* lines 109-271, called at lines 317-320
check_and_update ==
  /\ sh_pc = "check"
  /\ LET H == argument[next_argument]
         N == Len(H.vols)
         lmax == LforN(N)
         multiplier == Multiplier(DecisionRatio(H), force_old, force_new)
     IN  /\ buffers' = Append(buffers, force_old \/ force_new)
         /\ IF Modifies(multiplier)
              THEN /\ argument' = [argument EXCEPT ![next_argument] =
                                     Scaled(H, ModifiedVolumes(N, lmax), multiplier)]
                   /\ written' = written \cup
                        { << next_argument, v, x >> :
                            v \in ModifiedVolumes(N, lmax), x \in Voxels(H) }
              ELSE UNCHANGED << argument, written >>
  /\ next_argument' = next_argument + 1
  /\ sh_pc' = "open"
  /\ UNCHANGED << sh_error, force_old, force_new, given, headers >>
  /\ UNCHANGED << runVars, loopVars, shufflerVars, sceneVars >>

\* line 303: i == argument.end()
FinishShbasis ==
  /\ sh_pc = "open"
  /\ next_argument > Len(argument)
  /\ sh_pc' = "done"
  /\ UNCHANGED << sh_error, force_old, force_new, argument, given, next_argument,
                  headers, buffers, written >>
  /\ UNCHANGED << runVars, loopVars, shufflerVars, sceneVars >>

\* an image of N volumes of two voxels: the DC term is 1 (0 in the second
\* voxel when outside), every m = 0 volume holds b and every other volume
\* holds a * sqrt(2)^k
SHImage(ndim, floating, N, a, k, b, outside) ==
  [ndim |-> ndim, floating |-> floating,
   vols |-> [i \in 1..N |->
      IF i = 1 THEN << Value(1, 0), Value(IF outside THEN 0 ELSE 1, 0) >>
      ELSE IF (i - 1) \in mzero_terms(LforN(N)) THEN << Value(b, 0), Value(b, 0) >>
      ELSE << Value(a, k), Value(a, k) >>]]

SHImages ==
  { SHImage(4, TRUE, N, 1, 0, 1, FALSE) : N \in {6, 15} }      \* new basis
  \cup { SHImage(4, TRUE, N, 1, 1, 1, FALSE) : N \in {6, 15} } \* old basis
  \cup { SHImage(4, TRUE, 6, 1, 1, 1, TRUE),                   \* old, one voxel outside
         SHImage(4, TRUE, 6, 2, 0, 1, FALSE),                  \* ratio 4
         SHImage(4, TRUE, 6, 1, 0, 0, FALSE),                  \* no m = 0 power
         SHImage(3, TRUE, 6, 1, 0, 1, FALSE),
         SHImage(4, TRUE, 3, 1, 0, 1, FALSE),
         SHImage(4, TRUE, 7, 1, 0, 1, FALSE),
         SHImage(4, FALSE, 6, 1, 0, 1, FALSE) }

NextShbasis ==
  \/ ReadForceOptions(SHImages)
  \/ OpenHeader
  \/ check_and_update
  \/ FinishShbasis

SpecShbasis == Init /\ [][NextShbasis]_vars

(***************************************************************************)
(* Properties of shbasis.                                                  *)
(***************************************************************************)
\* the arguments that check_and_update() has returned from
Checked == 1..Len(buffers)

\* the volumes of the m = 0 terms of an even series of N coefficients, the
\* DC term included
MZeroVolumes(N) == { (l * (l + 1)) \div 2 : l \in { j \in 0..N : j % 2 = 0 } }

\* the basis was to be changed: a force option is in effect, the ratio of
\* the image as given lies in the interval of one basis, and the other
\* basis is the one forced
ToBeChanged(a) ==
  LET ratio == DecisionRatio(given[a])
  IN  \/ force_new /\ GreaterThan(ratio, 5, 3) /\ LessThan(ratio, 7, 3)
      \/ force_old /\ GreaterThan(ratio, 2, 3) /\ LessThan(ratio, 4, 3)

\* C17: an image's voxels are written only when a force option is in
\* effect, its power ratio lies in (5/3, 7/3) or in (2/3, 4/3) and the basis
\* detected is not the forced one; otherwise nothing is written and the
\* image is as given.  When written, every voxel of every volume with
\* m # 0 is scaled, by sqrt(2) or its inverse, and volume 0 and the m = 0
\* volumes are as given.  Conflicting force options end run() before any
\* image header is opened.
C17_ShbasisModification ==
  /\ sh_error \in {ExclusiveMessage, NativeMessage} =>
       sh_pc = "failed" /\ headers = 0 /\ buffers = <<>> /\ written = {}
  /\ ~(force_old /\ force_new)
       \/ (sh_pc = "failed" /\ sh_error = ExclusiveMessage)
  /\ \A a \in 1..Len(argument) :
       LET N == Len(given[a].vols)
           touched == { w \in written : w[1] = a }
       IN  /\ a \notin Checked => touched = {} /\ argument[a] = given[a]
           /\ a \in Checked /\ ~ToBeChanged(a) =>
                touched = {} /\ argument[a] = given[a]
           /\ touched # {} => buffers[a] /\ (force_old \/ force_new)
           /\ a \in Checked /\ ToBeChanged(a) =>
                /\ touched = { << a, v, x >> :
                                 v \in (0..(N - 1)) \ MZeroVolumes(N),
                                 x \in Voxels(given[a]) }
                /\ \A v \in 0..(N - 1) : \A x \in Voxels(given[a]) :
                     /\ argument[a].vols[v + 1][x].m = given[a].vols[v + 1][x].m
                     /\ argument[a].vols[v + 1][x].k =
                          given[a].vols[v + 1][x].k
                          + (IF v \in MZeroVolumes(N) THEN 0
                             ELSE IF force_new THEN -1 ELSE 1)

C17_Witness ==
  /\ sh_pc = "done"
  /\ force_new
  /\ Len(argument) = 2
  /\ Len(given[1].vols) = 15
  /\ ToBeChanged(1)
  /\ argument[1] # given[1]
  /\ ~ToBeChanged(2)
  /\ ~AppearsNew(DecisionRatio(given[2]))
  /\ buffers = << TRUE, TRUE >>


(***************************************************************************)
(* SceneModeller::addTissues().  A tissue is a Tissue_ptr, an integer      *)
(* here, and has one type.  The argument is a std::set of pointers: the    *)
(* loop visits it in the order of the pointer values, which is any order.  *)
(***************************************************************************)
MaxTissues == 3        \* tissues that exist
MaxAddCalls == 3       \* calls of addTissues()

TissueTypes == << "CGM", "WM" >>

Tissues == 1..MaxTissues

\* ( *t )->type()
TypeOf(t) == TissueTypes[((t - 1) % Len(TissueTypes)) + 1]

DuplicateMessage == "Add duplicate tissue type"

\* the test of line 104 finding nothing
Registered_never(map, type) == FALSE

\* line 104: _tissues.find( ( *t )->type() ) != _tissues.end()
Registered(map, type) == \E e \in map : e[1] = type

\* line 108: _tissues[ type ] = tissue
Assigned(map, type, tissue) ==
  { e \in map : e[1] # type } \cup { << type, tissue >> }

\* lines 101-111: the loop over the tissues
RECURSIVE AddAll(_, _, _)
AddAll(map, lut, remaining) ==
  IF remaining = <<>>
    THEN [map |-> map, lut |-> lut, error |-> "none"]
  ELSE IF Registered(map, TypeOf(Head(remaining)))
    THEN [map |-> map, lut |-> lut, error |-> DuplicateMessage]
  ELSE AddAll(Assigned(map, TypeOf(Head(remaining)), Head(remaining)),
              Append(lut, Head(remaining)),
              Tail(remaining))

\* the orders in which a set of tissues may be visited
Orderings(S) ==
  { o \in [1..Cardinality(S) -> S] : \A i, j \in 1..Cardinality(S) : i # j => o[i] # o[j] }

addTissues(sets) ==
  /\ add_calls < MaxAddCalls
  /\ \E S \in sets : \E order \in Orderings(S) :
       LET result == AddAll(_tissues, _tissueLut, order)
       IN  /\ _tissues' = result.map
           /\ _tissueLut' = result.lut
           /\ last_call' = [tissues |-> order, before |-> _tissues,
                            error |-> result.error]
  /\ add_calls' = add_calls + 1
  /\ UNCHANGED << runVars, loopVars, shufflerVars, shbasisVars >>

NextScene == addTissues(SUBSET Tissues)

SpecScene == Init /\ [][NextScene]_vars

(***************************************************************************)
(* Properties of SceneModeller::addTissues().                              *)
(***************************************************************************)
\* the positions of a call's tissues whose type was registered before the
\* call or belongs to a tissue earlier in the call
DuplicatePositions(call) ==
  { i \in 1..Len(call.tissues) :
      \/ \E e \in call.before : e[1] = TypeOf(call.tissues[i])
      \/ \E j \in 1..(i - 1) : TypeOf(call.tissues[j]) = TypeOf(call.tissues[i]) }

\* the tissues a call visits before it meets a duplicate
ProcessedBy(call) ==
  { call.tissues[i] : i \in { k \in 1..Len(call.tissues) :
                                \A d \in DuplicatePositions(call) : k < d } }

\* C18: after any calls of addTissues, returned or thrown, the map holds at
\* most one tissue per type, the tissue of a type is the first one ever
\* added with it, a call throws "Add duplicate tissue type" exactly when it
\* meets a registered type, the tissues in the map are exactly those passed
\* to the look-up table update, each once, and what a call processed before
\* its duplicate is registered.
C18_AddTissues ==
  /\ \A e, f \in _tissues : e[1] = f[1] => e = f
  /\ \A e \in _tissues : TypeOf(e[2]) = e[1]
  /\ \A i, j \in 1..Len(_tissueLut) : i # j => _tissueLut[i] # _tissueLut[j]
  /\ { e[2] : e \in _tissues } = { _tissueLut[i] : i \in 1..Len(_tissueLut) }
  /\ \A e \in _tissues :
       \A i \in 1..Len(_tissueLut) :
         TypeOf(_tissueLut[i]) = e[1] => _tissueLut[i] = e[2]
  /\ last_call.before \subseteq _tissues
  /\ (last_call.error = DuplicateMessage) <=> (DuplicatePositions(last_call) # {})
  /\ last_call.error \in {"none", DuplicateMessage}
  /\ { e[2] : e \in _tissues } =
       { e[2] : e \in last_call.before } \cup ProcessedBy(last_call)

C18_Witness ==
  /\ add_calls = 2
  /\ last_call.error = DuplicateMessage
  /\ last_call.before # {}
  /\ Len(last_call.tissues) = 3
  /\ Cardinality(ProcessedBy(last_call)) = 1
  /\ \E e \in last_call.before : TypeOf(last_call.tissues[2]) = e[1]
  /\ Cardinality(_tissues) = 2

====
